---- MODULE Spec2Model ----
(***************************************************************************)
(* Diamond Mind agent runtime (shared/base_agent.py) over the Redis        *)
(* message queue (shared/messaging.py).                                    *)
(*                                                                         *)
(* One step of the model is one stretch of a coroutine between two await   *)
(* points that reach the broker or the handler: Redis executes each        *)
(* command atomically, and asyncio runs a coroutine uninterrupted between  *)
(* awaits.                                                                 *)
(***************************************************************************)
EXTENDS Integers, Sequences, FiniteSets, TLC

\* ------------------------------------------------------------------ bounds
MaxTasks == 2
MaxStarts == 2
MaxBeats == 1
MaxPushes == 2

\* ------------------------------------------------------------- data model
None == "none"

Runtimes == {"r1", "r2"}

\* schemas.AgentType, restricted to the two kinds the runtimes are bound to
AgentType == {"data_quality", "model_monitor"}

TaskStatus == {"pending", "running", "completed", "failed", "cancelled"}

TaskPriority == {"low", "medium", "high", "critical"}

AlertSeverity == {"info", "warning", "error", "critical"}

TaskIds == 1..MaxTasks

\* str(e) of the exception a handler raises: str(ValueError()) is ""
ErrorTexts == {"", "boom"}

\* AgentResult.error_message: Optional[str]
ErrorMessages == {None} \cup ErrorTexts

AgentTask(id, agent, priority) ==
    [task_id |-> id, agent_id |-> agent, priority |-> priority, retry_count |-> 0]

AgentResult(id, agent, status, msg) ==
    [task_id |-> id, agent_id |-> agent, status |-> status, error_message |-> msg]

AgentAlert(agent, severity, related) ==
    [agent_id |-> agent, severity |-> severity, related_task_id |-> related]

\* Optional[AgentTask] and Optional[AgentResult] holding nothing
NoTask == AgentTask(0, None, None)

NoResult == AgentResult(0, None, None, None)

\* What a MessageQueue call gives its caller: the value it returns (a bool,
\* an Optional task or result, a number, or plain None), or the exception of
\* the Redis client when nothing in the call catches it
Returned == "returned"

Raised == "raised"

Reply(op, kind, flag, t, res, n) ==
    [op |-> op, kind |-> kind, flag |-> flag, task |-> t, result |-> res, count |-> n]

BoolReply(op, b) == Reply(op, Returned, b, NoTask, NoResult, 0)

TaskReply(op, t) == Reply(op, Returned, FALSE, t, NoResult, 0)

ResultReply(op, res) == Reply(op, Returned, FALSE, NoTask, res, 0)

CountReply(op, n) == Reply(op, Returned, FALSE, NoTask, NoResult, n)

NoneReply(op) == Reply(op, Returned, FALSE, NoTask, NoResult, 0)

RaisedReply(op) == Reply(op, Raised, FALSE, NoTask, NoResult, 0)

NoReply == Reply(None, None, FALSE, NoTask, NoResult, 0)

\* A client's publish_result / publish_alert between its two commands
Call(stage, item) == [stage |-> stage, item |-> item]

NoCall == Call("idle", NoResult)

\* ------------------------------------------------------------------ state
VARIABLES
    brokerUp,        \* the Redis connection answers commands
    taskQueue,       \* list settings.task_queue_name, head first
    resultQueue,     \* list settings.result_queue_name, head first
    resultStore,     \* hashes results:<task_id>, field data
    alertQueue,      \* list settings.alert_queue_name, head first
    alertChannel,    \* messages published on channel "alerts", oldest first
    heartbeats,      \* hash agent_heartbeats: writes seen per agent id
    nextId,          \* next fresh task id (uuid4)
    agent_id,        \* BaseAgent.agent_id
    is_running,      \* BaseAgent.is_running
    tasks_completed, \* BaseAgent.tasks_completed
    tasks_failed,    \* BaseAgent.tasks_failed
    pc,              \* position of the start() coroutine
    task,            \* _run_loop / _execute_task local: the popped task
    result,          \* _execute_task local: the result being published
    hb,              \* position of the _heartbeat_task coroutine
    spc,             \* position of the stop() coroutine
    nstarts,         \* calls of start() made so far
    hist,            \* history of each task id: what was done with it
    pending,         \* a client's publish_result / publish_alert between its two commands
    reply,           \* what the last MessageQueue call of a client gave its caller
    pushed,          \* per task id: the result of the last publish_result that returned True
    sub,             \* position of a consume_alerts coroutine
    subFrom,         \* messages the channel had carried when it subscribed
    delivered        \* the alerts consume_alerts passed to its callback, oldest first

brokerVars == <<brokerUp, taskQueue, resultQueue, resultStore, alertQueue,
                alertChannel, heartbeats>>

agentVars == <<agent_id, is_running, tasks_completed, tasks_failed, pc, task,
               result, hb, spc>>

histVars == <<nextId, nstarts, hist>>

subVars == <<sub, subFrom, delivered>>

clientVars == <<pending, reply, pushed, subVars>>

vars == <<brokerVars, agentVars, histVars, clientVars>>

\* ------------------------------------------------------- Redis primitives
\* (mutant) RPUSH: the entry is added at the end BRPOP reads from
LPush_Tail(q, x) == q \o <<x>>

\* LPUSH key value
LPush(q, x) == <<x>> \o q

\* BRPOP key: the element handed to the caller
BRPopValue(q) == q[Len(q)]

\* (mutant) a read that leaves the element in the list, as LINDEX would
BRPopRest_Peek(q) == q

\* BRPOP key: what stays in the list
BRPopRest(q) == SubSeq(q, 1, Len(q) - 1)

\* (mutant) the hash key does not carry the task id
HSetResult_OneKey(store, r) == [t \in DOMAIN store |-> r]

\* HSET results:<task_id> data <json>
HSetResult(store, r) == [store EXCEPT ![r.task_id] = r]

\* HSET agent_heartbeats <agent_id> <now>
HSetHeartbeat(h, a) == [h EXCEPT ![a] = @ + 1]

Count(q, P(_)) == Cardinality({i \in 1..Len(q) : P(q[i])})

\* ---------------------------------------------------------------- history
\* Per task id: how often it was popped, handed to handle_task, returned
\* from / raised by the handler, passed to publish_result and to
\* publish_alert; executions ended by a cancellation; publish_result
\* commands the broker did not execute (connection down, or start()
\* cancelled before the command was sent).
NoHistory == [popped |-> 0, handled |-> 0, returned |-> 0, raised |-> 0,
              published |-> 0, alerted |-> 0, aborted |-> 0, lost |-> 0]

Bump(h, id, field) == [h EXCEPT ![id][field] = @ + 1]

\* a broker command for task id that fails when the connection is down
BumpLost(h, id) == IF brokerUp THEN h ELSE Bump(h, id, "lost")

\* ------------------------------------------------------------------- Init
InitWith(ids) ==
    /\ brokerUp = TRUE
    /\ taskQueue = <<>>
    /\ resultQueue = <<>>
    /\ resultStore = [t \in TaskIds |-> NoResult]
    /\ alertQueue = <<>>
    /\ alertChannel = <<>>
    /\ heartbeats = [a \in AgentType |-> 0]
    /\ nextId = 1
    /\ agent_id \in ids
    /\ is_running = [r \in Runtimes |-> FALSE]
    /\ tasks_completed = [r \in Runtimes |-> 0]
    /\ tasks_failed = [r \in Runtimes |-> 0]
    /\ pc = [r \in Runtimes |-> "created"]
    /\ task = [r \in Runtimes |-> NoTask]
    /\ result = [r \in Runtimes |-> NoResult]
    /\ hb = [r \in Runtimes |-> "none"]
    /\ spc = [r \in Runtimes |-> "idle"]
    /\ nstarts = 0
    /\ hist = [t \in TaskIds |-> NoHistory]
    /\ pending = NoCall
    /\ reply = NoReply
    /\ pushed = [t \in TaskIds |-> NoResult]
    /\ sub = "none"
    /\ subFrom = 0
    /\ delivered = <<>>

\* main.py builds one agent per enabled kind
Init == InitWith({[r \in Runtimes |->
                    IF r = "r1" THEN "data_quality" ELSE "model_monitor"]})

\* several processes, each running an agent of some kind, share the broker
FleetInit == InitWith({f \in [Runtimes -> AgentType] : f["r1"] = "data_quality"})

\* ------------------------------------------------------------ environment
\* The Redis connection drops.
BrokerDown ==
    /\ brokerUp
    /\ brokerUp' = FALSE
    /\ UNCHANGED <<clientVars, taskQueue, resultQueue, resultStore, alertQueue,
                   alertChannel, heartbeats, agentVars, histVars>>

\* The Redis connection comes back.
BrokerRecover ==
    /\ ~brokerUp
    /\ brokerUp' = TRUE
    /\ UNCHANGED <<clientVars, taskQueue, resultQueue, resultStore, alertQueue,
                   alertChannel, heartbeats, agentVars, histVars>>

\* MessageQueue.publish_task: LPUSH, or the logged failure
MQPublishTask(q, t) == IF brokerUp THEN LPush(q, t) ELSE q

\* (mutant) the priority argument is not passed on to AgentTask
PublishTask_DefaultPriority(a, p) ==
    /\ nextId <= MaxTasks
    /\ taskQueue' = MQPublishTask(taskQueue, AgentTask(nextId, a, "medium"))
    /\ nextId' = nextId + 1
    /\ UNCHANGED <<clientVars, brokerUp, resultQueue, resultStore, alertQueue, alertChannel,
                   heartbeats, agentVars, nstarts, hist>>

\* BaseAgent.publish_task(target_agent, task_type, parameters, priority)
PublishTask(a, p) ==
    /\ nextId <= MaxTasks
    /\ taskQueue' = MQPublishTask(taskQueue, AgentTask(nextId, a, p))
    /\ nextId' = nextId + 1
    /\ UNCHANGED <<clientVars, brokerUp, resultQueue, resultStore, alertQueue, alertChannel,
                   heartbeats, agentVars, nstarts, hist>>

\* ---------------------------------------------------------------- start()
\* The caller starts a fresh instance, or starts one again after stop()
\* and the earlier start() have both returned (start() itself has no guard).
CanStart(r) ==
    \/ pc[r] = "created"
    \/ pc[r] \in {"returned", "raised", "cancelled"} /\ spc[r] = "stopped"

\* BaseAgent.start up to its first await: the flag, the heartbeat task
Start(r) ==
    /\ CanStart(r)
    /\ nstarts < MaxStarts
    /\ is_running' = [is_running EXCEPT ![r] = TRUE]
    /\ hb' = [hb EXCEPT ![r] = "ready"]
    /\ pc' = [pc EXCEPT ![r] = "init"]
    /\ spc' = [spc EXCEPT ![r] = "idle"]
    /\ nstarts' = nstarts + 1
    /\ UNCHANGED <<clientVars, brokerVars, agent_id, tasks_completed, tasks_failed, task,
                   result, nextId, hist>>

\* await self.initialize(): returns, or raises out of start()
Initialize(r, ok) ==
    /\ pc[r] = "init"
    /\ pc' = [pc EXCEPT ![r] = IF ok THEN "loop" ELSE "raised"]
    /\ UNCHANGED <<clientVars, brokerVars, agent_id, is_running, tasks_completed,
                   tasks_failed, task, result, hb, spc, histVars>>

\* --------------------------------------------------------------- _run_loop
\* (mutant) while True: the flag is not read
LoopCheck_Forever(r) ==
    /\ pc[r] = "loop"
    /\ pc' = [pc EXCEPT ![r] = "pop"]
    /\ UNCHANGED <<clientVars, brokerVars, agent_id, is_running, tasks_completed,
                   tasks_failed, task, result, hb, spc, histVars>>

\* while self.is_running: (the loop head, reached after each sleep)
LoopCheck(r) ==
    /\ pc[r] = "loop"
    /\ pc' = [pc EXCEPT ![r] = IF is_running[r] THEN "pop" ELSE "returned"]
    /\ UNCHANGED <<clientVars, brokerVars, agent_id, is_running, tasks_completed,
                   tasks_failed, task, result, hb, spc, histVars>>

\* MessageQueue.consume_task: the task BRPOP hands out, None on a timeout
\* (empty list) or on a logged connection error
MQConsumeTask(q) == IF brokerUp /\ Len(q) > 0 THEN BRPopValue(q) ELSE NoTask

\* MessageQueue.consume_task: the task list after the call
MQConsumeRest(q) == IF brokerUp /\ Len(q) > 0 THEN BRPopRest(q) ELSE q

\* (mutant) the target of the task is not compared
Accepts_Any(r, t) == t # NoTask

\* if task and task.agent_id == self.agent_id
Accepts(r, t) == t # NoTask /\ t.agent_id = agent_id[r]

\* (mutant) _execute_task is started as a background task and not awaited
ConsumeTask_Spawn(r) ==
    /\ pc[r] = "pop"
    /\ LET t == MQConsumeTask(taskQueue)
           h == IF t = NoTask THEN hist ELSE Bump(hist, t.task_id, "popped")
       IN
        /\ taskQueue' = MQConsumeRest(taskQueue)
        /\ hist' = IF Accepts(r, t) THEN Bump(h, t.task_id, "handled") ELSE h
    /\ pc' = [pc EXCEPT ![r] = "loop"]
    /\ UNCHANGED <<clientVars, brokerUp, resultQueue, resultStore, alertQueue, alertChannel,
                   heartbeats, agent_id, is_running, tasks_completed,
                   tasks_failed, task, result, hb, spc, nextId, nstarts>>

\* task = await message_queue.consume_task(timeout=5), and the call of
\* _execute_task / handle_task when the task is this agent's
ConsumeTask(r) ==
    /\ pc[r] = "pop"
    /\ LET t == MQConsumeTask(taskQueue)
           h == IF t = NoTask THEN hist ELSE Bump(hist, t.task_id, "popped")
       IN
        /\ taskQueue' = MQConsumeRest(taskQueue)
        /\ IF Accepts(r, t)
           THEN /\ task' = [task EXCEPT ![r] = t]
                /\ pc' = [pc EXCEPT ![r] = "handle"]
                /\ hist' = Bump(h, t.task_id, "handled")
           ELSE /\ pc' = [pc EXCEPT ![r] = "loop"]
                /\ hist' = h
                /\ UNCHANGED task
    /\ UNCHANGED <<clientVars, brokerUp, resultQueue, resultStore, alertQueue, alertChannel,
                   heartbeats, agent_id, is_running, tasks_completed,
                   tasks_failed, result, hb, spc, nextId, nstarts>>

\* ----------------------------------------------------------- _execute_task
\* (mutant) the result is pushed twice
MQPublishResultQueue_Twice(q, res) == IF brokerUp THEN LPush(LPush(q, res), res) ELSE q

\* MessageQueue.publish_result, first command: LPUSH on the result list, or
\* the logged failure (which skips the HSET)
MQPublishResultQueue(q, res) == IF brokerUp THEN LPush(q, res) ELSE q

\* (mutant) publish_result without its HSET
MQPublishResultStore_Skip(store, res) == store

\* MessageQueue.publish_result, second command: HSET of the result hash
MQPublishResultStore(store, res) == IF brokerUp THEN HSetResult(store, res) ELSE store

\* MessageQueue.publish_result returns True: both commands were executed
Acknowledged(p, res) == IF brokerUp THEN [p EXCEPT ![res.task_id] = res] ELSE p

\* MessageQueue.publish_alert, first command: LPUSH on the alert list
MQPublishAlertQueue(q, a) == IF brokerUp THEN LPush(q, a) ELSE q

\* MessageQueue.publish_alert, second command: PUBLISH on channel "alerts"
MQPublishAlertChannel(ch, a) == IF brokerUp THEN Append(ch, a) ELSE ch

\* (mutant) no failure is escalated
Escalates_Never(t) == FALSE

\* (mutant) every failure is escalated, whatever the priority
Escalates_Always(t) == TRUE

\* if task.priority == TaskPriority.CRITICAL: await self.publish_alert(...)
Escalates(t) == t.priority = "critical"

\* (mutant) a failed task ends the main loop
AfterFailedResult_Exit(t) == "returned"

\* where _execute_task goes once the failure result's publish_result is over
AfterFailedResult(t) == IF Escalates(t) THEN "alert_lpush" ELSE "loop"

\* the alert publish_alert builds for a failed task
FailureAlert(r, t) == AgentAlert(agent_id[r], "critical", t.task_id)

\* (mutant) the except branch reports the task as completed
FailureResult_Completed(r, t, text) ==
    AgentResult(t.task_id, agent_id[r], "completed", text)

\* the result the except branch builds
FailureResult(r, t, text) == AgentResult(t.task_id, agent_id[r], "failed", text)

\* handle_task returns a result: it is stamped and handed to publish_result,
\* whose LPUSH runs; when that fails publish_result returns False and the
\* try block goes on to count the task as completed.
HandleTaskReturns(r, status, msg) ==
    /\ pc[r] = "handle"
    /\ LET res == AgentResult(task[r].task_id, agent_id[r], status, msg)
           id == res.task_id
       IN
        /\ hist' = BumpLost(Bump(Bump(hist, id, "returned"), id, "published"), id)
        /\ resultQueue' = MQPublishResultQueue(resultQueue, res)
        /\ IF brokerUp
           THEN /\ result' = [result EXCEPT ![r] = res]
                /\ pc' = [pc EXCEPT ![r] = "hset_ok"]
                /\ UNCHANGED <<task, tasks_completed>>
           ELSE /\ tasks_completed' = [tasks_completed EXCEPT ![r] = @ + 1]
                /\ pc' = [pc EXCEPT ![r] = "loop"]
                /\ task' = [task EXCEPT ![r] = NoTask]
                /\ UNCHANGED result
    /\ UNCHANGED <<clientVars, brokerUp, taskQueue, resultStore, alertQueue, alertChannel,
                   heartbeats, agent_id, is_running, tasks_failed, hb, spc,
                   nextId, nstarts>>

\* publish_result's HSET on the success path, then tasks_completed += 1
StoreResult(r) ==
    /\ pc[r] = "hset_ok"
    /\ resultStore' = MQPublishResultStore(resultStore, result[r])
    /\ tasks_completed' = [tasks_completed EXCEPT ![r] = @ + 1]
    /\ pc' = [pc EXCEPT ![r] = "loop"]
    /\ task' = [task EXCEPT ![r] = NoTask]
    /\ result' = [result EXCEPT ![r] = NoResult]
    /\ pushed' = Acknowledged(pushed, result[r])
    /\ hist' = BumpLost(hist, result[r].task_id)
    /\ UNCHANGED <<subVars, pending, reply, brokerUp, taskQueue, resultQueue, alertQueue, alertChannel,
                   heartbeats, agent_id, is_running, tasks_failed, hb, spc,
                   nextId, nstarts>>

\* (mutant) a task whose handler raised is pushed back once, retry_count + 1
HandleTaskRaises_Requeue(r, text) ==
    /\ pc[r] = "handle"
    /\ tasks_failed' = [tasks_failed EXCEPT ![r] = @ + 1]
    /\ taskQueue' = IF task[r].retry_count < 1
                    THEN MQPublishTask(taskQueue, [task[r] EXCEPT !.retry_count = @ + 1])
                    ELSE taskQueue
    /\ hist' = Bump(hist, task[r].task_id, "raised")
    /\ pc' = [pc EXCEPT ![r] = "loop"]
    /\ task' = [task EXCEPT ![r] = NoTask]
    /\ UNCHANGED <<clientVars, brokerUp, resultQueue, resultStore, alertQueue, alertChannel,
                   heartbeats, agent_id, is_running, tasks_completed, result, hb,
                   spc, nextId, nstarts>>

\* handle_task raises: tasks_failed += 1, the FAILED result is built and
\* handed to publish_result, whose LPUSH runs
HandleTaskRaises(r, text) ==
    /\ pc[r] = "handle"
    /\ tasks_failed' = [tasks_failed EXCEPT ![r] = @ + 1]
    /\ LET res == FailureResult(r, task[r], text)
           id == res.task_id
       IN
        /\ hist' = BumpLost(Bump(Bump(hist, id, "raised"), id, "published"), id)
        /\ resultQueue' = MQPublishResultQueue(resultQueue, res)
        /\ IF brokerUp
           THEN /\ result' = [result EXCEPT ![r] = res]
                /\ pc' = [pc EXCEPT ![r] = "hset_fail"]
                /\ UNCHANGED task
           ELSE /\ pc' = [pc EXCEPT ![r] = AfterFailedResult(task[r])]
                /\ task' = [task EXCEPT ![r] =
                                IF Escalates(task[r]) THEN task[r] ELSE NoTask]
                /\ UNCHANGED result
    /\ UNCHANGED <<clientVars, brokerUp, taskQueue, resultStore, alertQueue, alertChannel,
                   heartbeats, agent_id, is_running, tasks_completed, hb, spc,
                   nextId, nstarts>>

\* publish_result's HSET on the failure path
StoreFailure(r) ==
    /\ pc[r] = "hset_fail"
    /\ resultStore' = MQPublishResultStore(resultStore, result[r])
    /\ pc' = [pc EXCEPT ![r] = AfterFailedResult(task[r])]
    /\ task' = [task EXCEPT ![r] = IF Escalates(task[r]) THEN task[r] ELSE NoTask]
    /\ result' = [result EXCEPT ![r] = NoResult]
    /\ pushed' = Acknowledged(pushed, result[r])
    /\ hist' = BumpLost(hist, result[r].task_id)
    /\ UNCHANGED <<subVars, pending, reply, brokerUp, taskQueue, resultQueue, alertQueue, alertChannel,
                   heartbeats, agent_id, is_running, tasks_completed,
                   tasks_failed, hb, spc, nextId, nstarts>>

\* BaseAgent.publish_alert -> MessageQueue.publish_alert: the LPUSH; when it
\* fails the PUBLISH is skipped
AlertEnqueue(r) ==
    /\ pc[r] = "alert_lpush"
    /\ alertQueue' = MQPublishAlertQueue(alertQueue, FailureAlert(r, task[r]))
    /\ pc' = [pc EXCEPT ![r] = IF brokerUp THEN "alert_publish" ELSE "loop"]
    /\ task' = [task EXCEPT ![r] = IF brokerUp THEN task[r] ELSE NoTask]
    /\ hist' = Bump(hist, task[r].task_id, "alerted")
    /\ UNCHANGED <<clientVars, brokerUp, taskQueue, resultQueue, resultStore, alertChannel,
                   heartbeats, agent_id, is_running, tasks_completed,
                   tasks_failed, result, hb, spc, nextId, nstarts>>

\* MessageQueue.publish_alert: the PUBLISH on channel "alerts"
AlertBroadcast(r) ==
    /\ pc[r] = "alert_publish"
    /\ alertChannel' = MQPublishAlertChannel(alertChannel, FailureAlert(r, task[r]))
    /\ pc' = [pc EXCEPT ![r] = "loop"]
    /\ task' = [task EXCEPT ![r] = NoTask]
    /\ UNCHANGED <<clientVars, brokerUp, taskQueue, resultQueue, resultStore, alertQueue,
                   heartbeats, agent_id, is_running, tasks_completed,
                   tasks_failed, result, hb, spc, histVars>>

\* ---------------------------------------------------------- get_error_rate
\* (mutant) failed tasks over completed tasks
get_error_rate_OverCompleted(r) ==
    IF tasks_completed[r] = 0 THEN <<0, 1>>
    ELSE <<tasks_failed[r], tasks_completed[r]>>

\* BaseAgent.get_error_rate: the quotient tasks_failed / total_tasks as the
\* pair <<dividend, divisor>>, 0.0 as <<0, 1>>
get_error_rate(r) ==
    LET total_tasks == tasks_completed[r] + tasks_failed[r] IN
    IF total_tasks = 0 THEN <<0, 1>> ELSE <<tasks_failed[r], total_tasks>>

\* ------------------------------------------------- cancellation of start()
\* the awaits of start(): initialize(), the BRPOP, handle_task, the
\* commands of publish_result and publish_alert, the sleep before the loop
\* head
Awaiting(r) == pc[r] \in {"init", "pop", "handle", "hset_ok", "hset_fail",
                          "alert_lpush", "alert_publish", "loop"}

\* main.run_agents: the task running agent.start() is cancelled (shutdown);
\* CancelledError is no Exception, so neither _execute_task nor _run_loop
\* catches it and start() ends where it was waiting: a handler is abandoned,
\* a publish_result between its LPUSH and its HSET never sends the HSET
CancelStart(r) ==
    /\ Awaiting(r)
    /\ pc' = [pc EXCEPT ![r] = "cancelled"]
    /\ task' = [task EXCEPT ![r] = NoTask]
    /\ result' = [result EXCEPT ![r] = NoResult]
    /\ hist' = IF pc[r] = "handle"
               THEN Bump(hist, task[r].task_id, "aborted")
               ELSE IF pc[r] \in {"hset_ok", "hset_fail"}
               THEN Bump(hist, task[r].task_id, "lost")
               ELSE hist
    /\ UNCHANGED <<clientVars, brokerVars, agent_id, is_running, tasks_completed,
                   tasks_failed, hb, spc, nextId, nstarts>>

\* --------------------------------------------------------- _heartbeat_loop
\* MessageQueue.update_agent_heartbeat: HSET, which raises when Redis is down
MQUpdateHeartbeat(h, a) == IF brokerUp THEN HSetHeartbeat(h, a) ELSE h

\* (mutant) the heartbeat is written from the main loop, between two tasks
HeartbeatTick_BetweenTasks(r) ==
    /\ pc[r] \notin {"pop", "handle"}
    /\ hb[r] \in {"ready", "sleep", "errsleep"}
    /\ is_running[r] /\ brokerUp => heartbeats[agent_id[r]] < MaxBeats
    /\ heartbeats' = IF is_running[r]
                     THEN MQUpdateHeartbeat(heartbeats, agent_id[r])
                     ELSE heartbeats
    /\ hb' = [hb EXCEPT ![r] = IF ~is_running[r] THEN "done"
                               ELSE IF brokerUp THEN "sleep" ELSE "errsleep"]
    /\ UNCHANGED <<clientVars, brokerUp, taskQueue, resultQueue, resultStore, alertQueue,
                   alertChannel, agent_id, is_running, tasks_completed,
                   tasks_failed, pc, task, result, spc, histVars>>

\* (mutant) a failed heartbeat write ends the loop
HeartbeatTick_ExitOnError(r) ==
    /\ hb[r] \in {"ready", "sleep", "errsleep"}
    /\ is_running[r] /\ brokerUp => heartbeats[agent_id[r]] < MaxBeats
    /\ heartbeats' = IF is_running[r]
                     THEN MQUpdateHeartbeat(heartbeats, agent_id[r])
                     ELSE heartbeats
    /\ hb' = [hb EXCEPT ![r] = IF ~is_running[r] \/ ~brokerUp THEN "done" ELSE "sleep"]
    /\ UNCHANGED <<clientVars, brokerUp, taskQueue, resultQueue, resultStore, alertQueue,
                   alertChannel, agent_id, is_running, tasks_completed,
                   tasks_failed, pc, task, result, spc, histVars>>

\* One turn of the loop, entered at its start or when a sleep ends: the
\* while test, the heartbeat write, and the sleep that follows it (in the
\* try block after a write, in the except block after a failed one).
HeartbeatTick(r) ==
    /\ hb[r] \in {"ready", "sleep", "errsleep"}
    /\ is_running[r] /\ brokerUp => heartbeats[agent_id[r]] < MaxBeats
    /\ heartbeats' = IF is_running[r]
                     THEN MQUpdateHeartbeat(heartbeats, agent_id[r])
                     ELSE heartbeats
    /\ hb' = [hb EXCEPT ![r] = IF ~is_running[r] THEN "done"
                               ELSE IF brokerUp THEN "sleep" ELSE "errsleep"]
    /\ UNCHANGED <<clientVars, brokerUp, taskQueue, resultQueue, resultStore, alertQueue,
                   alertChannel, agent_id, is_running, tasks_completed,
                   tasks_failed, pc, task, result, spc, histVars>>

\* (mutant) the cancelled loop writes a last heartbeat before it ends
HeartbeatCancelled_FinalWrite(r) ==
    /\ hb[r] = "cancelling"
    /\ heartbeats' = MQUpdateHeartbeat(heartbeats, agent_id[r])
    /\ hb' = [hb EXCEPT ![r] = "done"]
    /\ UNCHANGED <<clientVars, brokerUp, taskQueue, resultQueue, resultStore, alertQueue,
                   alertChannel, agent_id, is_running, tasks_completed,
                   tasks_failed, pc, task, result, spc, histVars>>

\* The cancelled task is scheduled: CancelledError is raised at its await (or
\* before its first step) and the coroutine ends without another write.
HeartbeatCancelled(r) ==
    /\ hb[r] = "cancelling"
    /\ hb' = [hb EXCEPT ![r] = "done"]
    /\ UNCHANGED <<clientVars, brokerVars, agent_id, is_running, tasks_completed,
                   tasks_failed, pc, task, result, spc, histVars>>

\* ----------------------------------------------------------------- stop()
\* _heartbeat_task.cancel(): a finished task stays finished
Cancel(h) == IF h \in {"none", "done"} THEN h ELSE "cancelling"

\* BaseAgent.stop up to its await: the flag is cleared, the heartbeat task
\* cancelled
Stop(r) ==
    /\ pc[r] # "created"
    /\ spc[r] = "idle"
    /\ is_running' = [is_running EXCEPT ![r] = FALSE]
    /\ hb' = [hb EXCEPT ![r] = Cancel(hb[r])]
    /\ spc' = [spc EXCEPT ![r] = "await_hb"]
    /\ UNCHANGED <<clientVars, brokerVars, agent_id, tasks_completed, tasks_failed, pc,
                   task, result, histVars>>

\* (mutant) cleanup() is called without awaiting the cancelled heartbeat task
StopCleanup_NoAwait(r) ==
    /\ spc[r] = "await_hb"
    /\ spc' = [spc EXCEPT ![r] = "stopped"]
    /\ UNCHANGED <<clientVars, brokerVars, agent_id, is_running, tasks_completed,
                   tasks_failed, pc, task, result, hb, histVars>>

\* await self._heartbeat_task returns; await self.cleanup() runs; stop()
\* returns
StopCleanup(r) ==
    /\ spc[r] = "await_hb"
    /\ hb[r] \in {"none", "done"}
    /\ spc' = [spc EXCEPT ![r] = "stopped"]
    /\ UNCHANGED <<clientVars, brokerVars, agent_id, is_running, tasks_completed,
                   tasks_failed, pc, task, result, hb, histVars>>

\* ------------------------------------------- clients of the MessageQueue
\* A dispatcher or monitor calls the MessageQueue methods directly, one call
\* at a time; a failed Redis command raises inside the method.

\* the lists a caller may name
QueueNames == {"tasks", "results", "alerts"}

\* await self.redis_client.llen(queue_name)
LLen(name) == IF name = "tasks" THEN Len(taskQueue)
              ELSE IF name = "results" THEN Len(resultQueue)
              ELSE Len(alertQueue)

\* publish_task(task) -> bool
CallPublishTask(a, p) ==
    /\ pending.stage = "idle"
    /\ nextId <= MaxTasks
    /\ taskQueue' = MQPublishTask(taskQueue, AgentTask(nextId, a, p))
    /\ nextId' = nextId + 1
    /\ reply' = BoolReply("publish_task", brokerUp)
    /\ UNCHANGED <<subVars, brokerUp, resultQueue, resultStore, alertQueue, alertChannel,
                   heartbeats, agentVars, nstarts, hist, pending, pushed>>

\* consume_task(timeout) -> Optional[AgentTask]
CallConsumeTask ==
    /\ pending.stage = "idle"
    /\ LET t == MQConsumeTask(taskQueue) IN
        /\ reply' = TaskReply("consume_task", t)
        /\ hist' = IF t = NoTask THEN hist ELSE Bump(hist, t.task_id, "popped")
    /\ taskQueue' = MQConsumeRest(taskQueue)
    /\ UNCHANGED <<subVars, brokerUp, resultQueue, resultStore, alertQueue, alertChannel,
                   heartbeats, agentVars, nextId, nstarts, pending, pushed>>

\* publish_result(result) -> bool, up to its HSET: the LPUSH, or the logged
\* failure and return False
CallPublishResult(res) ==
    /\ pending.stage = "idle"
    /\ Len(resultQueue) < MaxPushes
    /\ resultQueue' = MQPublishResultQueue(resultQueue, res)
    /\ IF brokerUp
       THEN pending' = Call("hset", res) /\ UNCHANGED reply
       ELSE reply' = BoolReply("publish_result", FALSE) /\ UNCHANGED pending
    /\ UNCHANGED <<subVars, brokerUp, taskQueue, resultStore, alertQueue, alertChannel,
                   heartbeats, agentVars, histVars, pushed>>

\* publish_result: the HSET and return True, or the logged failure and
\* return False
CallStoreResult ==
    /\ pending.stage = "hset"
    /\ resultStore' = MQPublishResultStore(resultStore, pending.item)
    /\ pushed' = Acknowledged(pushed, pending.item)
    /\ reply' = BoolReply("publish_result", brokerUp)
    /\ pending' = NoCall
    /\ UNCHANGED <<subVars, brokerUp, taskQueue, resultQueue, alertQueue, alertChannel,
                   heartbeats, agentVars, histVars>>

\* get_result(task_id) -> Optional[AgentResult], called by any observer at
\* any time: HGET results:<task_id> data, None when the field is missing
CallGetResult(t) ==
    /\ reply' = ResultReply("get_result",
                            IF brokerUp THEN resultStore[t] ELSE NoResult)
    /\ UNCHANGED <<subVars, brokerVars, agentVars, histVars, pending, pushed>>

\* publish_alert(alert) -> bool, up to its PUBLISH
CallPublishAlert(alert) ==
    /\ pending.stage = "idle"
    /\ Len(alertQueue) < MaxPushes /\ Len(alertChannel) < MaxPushes
    /\ alertQueue' = MQPublishAlertQueue(alertQueue, alert)
    /\ IF brokerUp
       THEN pending' = Call("publish", alert) /\ UNCHANGED reply
       ELSE reply' = BoolReply("publish_alert", FALSE) /\ UNCHANGED pending
    /\ UNCHANGED <<subVars, brokerUp, taskQueue, resultQueue, resultStore, alertChannel,
                   heartbeats, agentVars, histVars, pushed>>

\* publish_alert: the PUBLISH on channel "alerts"
CallBroadcastAlert ==
    /\ pending.stage = "publish"
    /\ alertChannel' = MQPublishAlertChannel(alertChannel, pending.item)
    /\ reply' = BoolReply("publish_alert", brokerUp)
    /\ pending' = NoCall
    /\ UNCHANGED <<subVars, brokerUp, taskQueue, resultQueue, resultStore, alertQueue,
                   heartbeats, agentVars, histVars, pushed>>

\* publish_message(channel, message) -> bool, on a channel nobody listens to
CallPublishMessage ==
    /\ pending.stage = "idle"
    /\ reply' = BoolReply("publish_message", brokerUp)
    /\ UNCHANGED <<subVars, brokerVars, agentVars, histVars, pending, pushed>>

\* update_agent_heartbeat(agent_id): no try around the HSET
CallUpdateHeartbeat(a) ==
    /\ pending.stage = "idle"
    /\ brokerUp => heartbeats[a] < MaxBeats
    /\ heartbeats' = MQUpdateHeartbeat(heartbeats, a)
    /\ reply' = IF brokerUp THEN NoneReply("update_agent_heartbeat")
                ELSE RaisedReply("update_agent_heartbeat")
    /\ UNCHANGED <<subVars, brokerUp, taskQueue, resultQueue, resultStore, alertQueue,
                   alertChannel, agentVars, histVars, pending, pushed>>

\* get_agent_heartbeat(agent_id): no try around the HGET; the value is the
\* stored timestamp (here the number of the write, 0 for no entry: None)
CallGetHeartbeat(a) ==
    /\ pending.stage = "idle"
    /\ reply' = IF brokerUp THEN CountReply("get_agent_heartbeat", heartbeats[a])
                ELSE RaisedReply("get_agent_heartbeat")
    /\ UNCHANGED <<subVars, brokerVars, agentVars, histVars, pending, pushed>>

\* get_queue_depth(queue_name): no try around the LLEN
CallGetQueueDepth(name) ==
    /\ pending.stage = "idle"
    /\ reply' = IF brokerUp THEN CountReply("get_queue_depth", LLen(name))
                ELSE RaisedReply("get_queue_depth")
    /\ UNCHANGED <<subVars, brokerVars, agentVars, histVars, pending, pushed>>

\* clear_queue(queue_name): no try around the DEL
CallClearQueue(name) ==
    /\ pending.stage = "idle"
    /\ taskQueue' = IF brokerUp /\ name = "tasks" THEN <<>> ELSE taskQueue
    /\ resultQueue' = IF brokerUp /\ name = "results" THEN <<>> ELSE resultQueue
    /\ alertQueue' = IF brokerUp /\ name = "alerts" THEN <<>> ELSE alertQueue
    /\ reply' = IF brokerUp THEN NoneReply("clear_queue")
                ELSE RaisedReply("clear_queue")
    /\ UNCHANGED <<subVars, brokerUp, resultStore, alertChannel, heartbeats, agentVars,
                   histVars, pending, pushed>>

\* ------------------------------------------------------- consume_alerts
\* pubsub.subscribe("alerts"): Redis sends the subscriber the messages
\* published from now on, in the order of the PUBLISH commands; a failed
\* subscribe raises into the except of consume_alerts, which returns
Subscribe ==
    /\ sub = "none"
    /\ sub' = IF brokerUp THEN "listening" ELSE "ended"
    /\ subFrom' = Len(alertChannel)
    /\ UNCHANGED <<delivered, pending, reply, pushed, brokerVars, agentVars, histVars>>

\* the message pubsub.listen() yields next
NextMessage == alertChannel[subFrom + Len(delivered) + 1]

\* One turn of async for message in pubsub.listen(): callback(alert). The
\* try is around the whole loop: an exception of the callback leaves the
\* loop, is logged, and consume_alerts returns
Deliver(raises) ==
    /\ sub = "listening"
    /\ subFrom + Len(delivered) < Len(alertChannel)
    /\ delivered' = Append(delivered, NextMessage)
    /\ sub' = IF raises THEN "ended" ELSE "listening"
    /\ UNCHANGED <<subFrom, pending, reply, pushed, brokerVars, agentVars, histVars>>

\* ------------------------------------------------------------ specification
\* What handle_task may do. BaseAgent declares it abstract: any AgentResult
\* may come back, any Exception may be raised.
AnyHandler == [returns |-> TaskStatus \X ErrorMessages, raises |-> ErrorTexts]

\* What the handlers of the repository do: a COMPLETED result without
\* error_message, or ValueError("Unknown task type: ...").
RepositoryHandler == [returns |-> {<<"completed", None>>}, raises |-> {"boom"}]

\* The same handlers failing with any exception: str(e) is "" for one raised
\* without arguments (ValueError(), asyncio.TimeoutError()).
RaisingHandler == [returns |-> {<<"completed", None>>}, raises |-> ErrorTexts]

Environment ==
    \/ BrokerDown
    \/ BrokerRecover
    \/ \E a \in AgentType, p \in TaskPriority : PublishTask(a, p)

\* start() of one runtime: initialize, the main loop, task execution
Runtime(r, handler) ==
    \/ Start(r)
    \/ \E ok \in BOOLEAN : Initialize(r, ok)
    \/ LoopCheck(r)
    \/ ConsumeTask(r)
    \/ \E o \in handler.returns : HandleTaskReturns(r, o[1], o[2])
    \/ StoreResult(r)
    \/ \E text \in handler.raises : HandleTaskRaises(r, text)
    \/ StoreFailure(r)
    \/ AlertEnqueue(r)
    \/ AlertBroadcast(r)

\* the heartbeat task and stop() of one runtime
Lifecycle(r) ==
    \/ HeartbeatTick(r)
    \/ HeartbeatCancelled(r)
    \/ Stop(r)
    \/ StopCleanup(r)

\* One agent process through its whole life: started, stopped, started
\* again, its start() cancelled at shutdown.
Next ==
    \/ Environment
    \/ Runtime("r1", RepositoryHandler)
    \/ Lifecycle("r1")
    \/ CancelStart("r1")

Spec == Init /\ [][Next]_vars

\* start() of runtime r once it has been called: initialize and the main loop
Started(r, handler) ==
    /\ pc[r] \notin {"created", "returned", "raised", "cancelled"}
    /\ Runtime(r, handler)

\* Tasks of either kind, escalated on failure or not, and the connection
SingleRunEnvironment ==
    \/ BrokerDown
    \/ BrokerRecover
    \/ \E a \in AgentType, p \in {"medium", "critical"} : PublishTask(a, p)

\* One agent process as main.py runs it: start() once, stop() once.
SingleRunNext ==
    \/ SingleRunEnvironment
    \/ pc["r1"] = "created" /\ Start("r1")
    \/ Started("r1", RepositoryHandler)
    \/ Lifecycle("r1")

SingleRunSpec == Init /\ [][SingleRunNext]_vars

\* The same process with its start() coroutine scheduled again and again:
\* the BRPOP returns within its timeout, the handler and the broker commands
\* return, the sleeps end. Nothing is assumed of the heartbeat task.
FairSingleRunSpec == SingleRunSpec /\ WF_vars(Started("r1", RepositoryHandler))

\* The polling of the main loop: the loop test and the BRPOP with its timeout
Polling(r) == LoopCheck(r) \/ ConsumeTask(r)

\* The same process where the event loop resumes the heartbeat task and the
\* polling of the main loop whenever they can run. Nothing is assumed of the
\* handler: handle_task may stay suspended for ever.
IndependentSpec ==
    SingleRunSpec /\ WF_vars(HeartbeatTick("r1")) /\ WF_vars(Polling("r1"))

\* Task execution of one started agent, for every handler BaseAgent admits.
ExecNext ==
    \/ Environment
    \/ Runtime("r1", AnyHandler)
    \/ CancelStart("r1")

ExecSpec == Init /\ [][ExecNext]_vars

\* Task execution of one started agent whose handler fails with any exception.
RaiseNext ==
    \/ Environment
    \/ Runtime("r1", RaisingHandler)
    \/ CancelStart("r1")

RaiseSpec == Init /\ [][RaiseNext]_vars

\* The results a client publishes: any task id, completed or failed
ClientResults ==
    {AgentResult(t, "data_quality", st, None) : t \in TaskIds, st \in {"completed", "failed"}}

\* publish_result and get_result called by clients in any order, for any
\* task ids, over a connection that drops and comes back.
ResultStoreNext ==
    \/ BrokerDown
    \/ BrokerRecover
    \/ \E res \in ClientResults : CallPublishResult(res)
    \/ CallStoreResult
    \/ \E t \in TaskIds : CallGetResult(t)

ResultStoreSpec == Init /\ [][ResultStoreNext]_vars

\* Every MessageQueue method called by a client, in any order, over a
\* connection that drops and comes back.
ClientNext ==
    \/ BrokerDown
    \/ BrokerRecover
    \/ CallPublishTask("data_quality", "medium")
    \/ CallConsumeTask
    \/ CallPublishResult(AgentResult(1, "data_quality", "completed", None))
    \/ CallStoreResult
    \/ CallGetResult(1)
    \/ CallPublishAlert(AgentAlert("data_quality", "warning", None))
    \/ CallBroadcastAlert
    \/ CallPublishMessage
    \/ CallUpdateHeartbeat("data_quality")
    \/ CallGetHeartbeat("data_quality")
    \/ \E name \in QueueNames : CallGetQueueDepth(name)
    \/ \E name \in QueueNames : CallClearQueue(name)

ClientSpec == Init /\ [][ClientNext]_vars

\* The alerts a client publishes
ClientAlerts == {AgentAlert("data_quality", sev, None) : sev \in AlertSeverity}

\* One consume_alerts subscriber and clients calling publish_alert, over a
\* connection that stays up.
SubscriberNext ==
    \/ Subscribe
    \/ \E alert \in ClientAlerts : CallPublishAlert(alert)
    \/ CallBroadcastAlert
    \/ \E raises \in BOOLEAN : Deliver(raises)

SubscriberSpec == Init /\ [][SubscriberNext]_vars

\* pubsub.listen() yields a message that has arrived
Listening == \E raises \in BOOLEAN : Deliver(raises)

\* The same, with the subscriber's coroutine resumed whenever a message has
\* arrived and a publish_alert that began carried through.
FairSubscriberSpec ==
    SubscriberSpec /\ WF_vars(Listening) /\ WF_vars(CallBroadcastAlert)

\* publish_alert called by clients over a connection that drops and comes
\* back.
AlertNext ==
    \/ BrokerDown
    \/ BrokerRecover
    \/ \E alert \in ClientAlerts : CallPublishAlert(alert)
    \/ CallBroadcastAlert

AlertSpec == Init /\ [][AlertNext]_vars

\* Several running agents polling the shared task queue.
FleetNext ==
    \/ Environment
    \/ \E r \in Runtimes : Runtime(r, RepositoryHandler)

FleetSpec == FleetInit /\ [][FleetNext]_vars

\* The same agents, each scheduled again and again: a coroutine whose await
\* has completed is resumed by the event loop.
FairFleetSpec ==
    FleetSpec /\ \A r \in Runtimes : WF_vars(Runtime(r, RepositoryHandler))

\* ================================================================= claims
\* Results in list q for task id t
ResultsIn(q, t) == Count(q, LAMBDA x : x.task_id = t)

\* Alerts in list (or channel history) q that refer to task id t
AlertsIn(q, t) == Count(q, LAMBDA x : x.related_task_id = t)

\* Results in the result list for task id t
ResultsFor(t) == ResultsIn(resultQueue, t)

\* Alerts in the alert list that refer to task id t
AlertsFor(t) == AlertsIn(alertQueue, t)

\* Alerts broadcast on the channel that refer to task id t
BroadcastsFor(t) == AlertsIn(alertChannel, t)

\* Runtimes whose handle_task is running for task id t
InHandler(t) == Cardinality({r \in Runtimes : pc[r] = "handle" /\ task[r].task_id = t})

\* Some runtime is between the pop of task id t and the end of _execute_task
Executing(t) == \E r \in Runtimes : task[r].task_id = t

\* Runtime r ends _execute_task normally in this step
Finishes(r) == task[r] # NoTask /\ task'[r] = NoTask /\ pc'[r] = "loop"

\* C1: a task pushed once is handed out by consume_task at most once and
\* handle_task is invoked for it at most once, whichever runtimes poll.
C1_AtMostOnce ==
    \A t \in TaskIds : hist[t].popped <= 1 /\ hist[t].handled <= 1

\* two runtimes of the same kind both poll again after one of them handled a task
C1_Witness ==
    /\ agent_id["r1"] = agent_id["r2"]
    /\ \A r \in Runtimes : pc[r] = "pop"
    /\ \E t \in TaskIds : hist[t].popped = 1 /\ hist[t].handled = 1

\* C2 (as claimed): once a task's execution is over, the result list holds
\* exactly one Result for each time its handler returned or raised.
C2_ExactlyOneResult ==
    \A t \in TaskIds :
        ~Executing(t) => ResultsFor(t) = hist[t].returned + hist[t].raised

\* C2 (amended): every handle_task invocation is followed by exactly one
\* publish_result call, unless start() is cancelled while the handler runs;
\* the result list never holds two Results for a task, and holds the one
\* published unless the broker was down during publish_result.
C2_OnePublishPerExecution ==
    \A t \in TaskIds :
        /\ hist[t].handled = hist[t].published + hist[t].aborted + InHandler(t)
        /\ ResultsFor(t) <= hist[t].published
        /\ ResultsFor(t) <= 1
        /\ hist[t].lost = 0 => ResultsFor(t) = hist[t].published

\* the handler raised, the runtime is back at its loop and the list holds the one Result
C2_Witness ==
    \E t \in TaskIds :
        /\ hist[t].raised = 1 /\ hist[t].published = 1
        /\ ResultsFor(t) = 1 /\ pc["r1"] = "loop" /\ ~Executing(t)

Queued(t) == \E i \in 1..Len(taskQueue) : taskQueue[i].task_id = t

\* Task id t is in the task list, addressed to agent kind a
QueuedFor(t, a) ==
    \E i \in 1..Len(taskQueue) : taskQueue[i].task_id = t /\ taskQueue[i].agent_id = a

\* C5: a runtime that pops a task addressed to another agent kind does not
\* call handle_task, publishes no Result and no Alert, leaves both counters
\* alone and does not push the task back: the task is then in no queue.
C5_MismatchDiscarded ==
    /\ [][\A r \in Runtimes :
            LET t == MQConsumeTask(taskQueue) IN
            (pc[r] = "pop" /\ pc'[r] # "pop" /\ t # NoTask /\ t.agent_id # agent_id[r])
            => /\ pc'[r] = "loop" /\ task'[r] = NoTask
               /\ hist'[t.task_id].handled = hist[t.task_id].handled
               /\ hist'[t.task_id].popped = 1
               /\ resultQueue' = resultQueue /\ resultStore' = resultStore
               /\ alertQueue' = alertQueue /\ alertChannel' = alertChannel
               /\ tasks_completed' = tasks_completed /\ tasks_failed' = tasks_failed
               /\ \A i \in 1..Len(taskQueue') : taskQueue'[i].task_id # t.task_id]_vars
    /\ [](\A t \in TaskIds : hist[t].popped > 0 => ~Queued(t))
    /\ [](\A t \in TaskIds :
            (hist[t].popped > 0 /\ hist[t].handled = 0)
                => /\ ResultsFor(t) = 0 /\ resultStore[t] = NoResult
                   /\ AlertsFor(t) = 0 /\ BroadcastsFor(t) = 0)

\* a task was popped by a runtime of another kind and is gone
C5_Witness ==
    \E t \in TaskIds :
        /\ hist[t].popped = 1 /\ hist[t].handled = 0
        /\ taskQueue = <<>>
        /\ \A r \in Runtimes : pc[r] = "pop"

\* C7 (as claimed): whenever an Alert for a task is in the alert list or has
\* been broadcast, a Result for that task is in the result list and in the
\* result hash.
C7_ResultBeforeAlert ==
    \A t \in TaskIds :
        (AlertsFor(t) > 0 \/ BroadcastsFor(t) > 0)
            => ResultsFor(t) >= 1 /\ resultStore[t] # NoResult

\* C7 (amended): the runtime calls publish_alert for a task only after its
\* publish_result call for that task is over; whenever an Alert for the task
\* exists, the FAILED Result is in the result list and the result hash unless
\* the broker was down during publish_result.
C7_PublishBeforeAlert ==
    /\ \A r \in Runtimes :
            pc[r] \in {"alert_lpush", "alert_publish"}
                => hist[task[r].task_id].published = 1 /\ result[r] = NoResult
    /\ \A t \in TaskIds :
            (hist[t].alerted > 0 \/ AlertsFor(t) > 0 \/ BroadcastsFor(t) > 0)
                => /\ hist[t].published = 1
                   /\ \A r \in Runtimes :
                        task[r].task_id = t => pc[r] \notin {"handle", "hset_fail"}
                   /\ hist[t].lost = 0
                        => /\ ResultsFor(t) = 1
                           /\ resultStore[t].task_id = t
                           /\ resultStore[t].status = "failed"

\* the Alert of a failed CRITICAL task is in the list while the runtime has
\* still to broadcast it, and the FAILED Result is already stored
C7_Witness ==
    \E t \in TaskIds :
        /\ pc["r1"] = "alert_publish" /\ task["r1"].task_id = t
        /\ AlertsFor(t) = 1 /\ BroadcastsFor(t) = 0
        /\ ResultsFor(t) = 1 /\ resultStore[t].status = "failed"

\* every status that appears on a Result in list q or hash store
StatusesIn(q, store) ==
    {q[i].status : i \in 1..Len(q)}
        \cup {store[t].status : t \in {u \in TaskIds : store[u] # NoResult}}

\* C8 (as claimed): every published Result has status COMPLETED or FAILED.
C8_StatusCompletedOrFailed ==
    StatusesIn(resultQueue, resultStore) \subseteq {"completed", "failed"}

\* C8 (amended): a Result the runtime publishes after handle_task raised has
\* status FAILED; a Result that handle_task returns is published with the
\* status the handler gave it, whichever TaskStatus that is.
C8_RaisedIsFailed ==
    /\ [](\A t \in TaskIds :
            hist[t].raised > 0
                => /\ \A i \in 1..Len(resultQueue) :
                        resultQueue[i].task_id = t => resultQueue[i].status = "failed"
                   /\ resultStore[t] # NoResult => resultStore[t].status = "failed")
    /\ [](StatusesIn(resultQueue, resultStore) \subseteq TaskStatus)
    /\ [][\A r \in Runtimes :
            (pc[r] = "handle" /\ pc'[r] = "hset_fail")
                => /\ result'[r].status = "failed"
                   /\ resultQueue' = <<result'[r]>> \o resultQueue
            ]_vars
    /\ [][\A r \in Runtimes :
            (pc[r] = "handle" /\ pc'[r] = "hset_ok")
                => /\ result'[r].status \in TaskStatus
                   /\ resultQueue' = <<result'[r]>> \o resultQueue
            ]_vars

\* one task's handler raised and another's returned a PENDING Result: both
\* Results are published as they are
C8_Witness ==
    \E t, u \in TaskIds :
        /\ hist[t].raised = 1 /\ resultStore[t].status = "failed"
        /\ hist[u].returned = 1 /\ resultStore[u].status = "pending"

\* C9 (as claimed): on every published Result, error_message is set and
\* non-empty if and only if status is FAILED.
C9_MessageIffFailed ==
    \A i \in 1..Len(resultQueue) :
        (resultQueue[i].error_message \notin {None, ""})
            <=> (resultQueue[i].status = "failed")

HeartbeatAlive(r) == hb[r] \in {"ready", "sleep", "errsleep", "cancelling"}

\* C11 (as claimed): once initialize() has raised out of start(), the
\* running flag is not true, the main loop is not entered, and the instance
\* writes no heartbeat.
C11_InitFailureNotRunning ==
    /\ [](\A r \in Runtimes : pc[r] = "raised" => ~is_running[r])
    /\ [][\A r \in Runtimes :
            pc[r] = "raised"
                => /\ pc'[r] \notin {"loop", "pop", "handle"}
                   /\ heartbeats'[agent_id[r]] = heartbeats[agent_id[r]]]_vars

\* C12: from the moment stop() has cleared the flag and cancelled the
\* heartbeat task, and for as long as the instance stays stopped, the
\* heartbeat entry of its identity does not advance: the cancelled task ends
\* without a write wherever the cancellation found it, and it has ended when
\* stop() returns.
C12_NoHeartbeatAfterStop ==
    /\ [](\A r \in Runtimes : spc[r] = "stopped" => ~HeartbeatAlive(r))
    /\ [](\A r \in Runtimes : spc[r] = "await_hb" => hb[r] \in {"cancelling", "done"})
    /\ [][\A r \in Runtimes :
            spc[r] \in {"await_hb", "stopped"}
                => heartbeats'[agent_id[r]] = heartbeats[agent_id[r]]]_vars
    /\ [][\A r \in Runtimes :
            hb[r] = "cancelling" => heartbeats' = heartbeats]_vars

\* stop() has returned on a runtime whose heartbeat task was cancelled in the
\* sleep that follows its write: the entry holds that one write and no other
C12_Witness ==
    /\ spc["r1"] = "stopped" /\ hb["r1"] = "done"
    /\ heartbeats[agent_id["r1"]] = 1
    /\ pc["r1"] \in {"returned", "cancelled"}

\* start() of runtime r is inside _run_loop
InLoop(r) == pc[r] \in {"loop", "pop", "handle", "hset_ok", "hset_fail",
                        "alert_lpush", "alert_publish"}

\* start() of runtime r is over: it returned, raised or was cancelled
StartOver(r) == pc[r] \in {"returned", "raised", "cancelled"}

\* C13: once stop() has cleared the flag of a runtime inside its main loop,
\* the loop issues no new BRPOP (only the one already waiting can still hand
\* it a task), leaves through the loop test only, and start() eventually
\* returns.
C13_LoopExitsAfterStop ==
    /\ [][\A r \in Runtimes :
            ~is_running[r] /\ pc'[r] = "pop" => pc[r] = "pop"]_vars
    /\ [][\A r \in Runtimes :
            (~is_running[r] /\ pc[r] = "loop" /\ pc'[r] # "loop")
                => pc'[r] \in {"returned", "cancelled"}]_vars
    /\ \A r \in Runtimes :
            (InLoop(r) /\ ~is_running[r]) ~> StartOver(r)

\* stop() has returned while the loop of the same start() is still handling
\* a task, with the flag already cleared
C13_Witness ==
    /\ ~is_running["r1"] /\ spc["r1"] = "stopped"
    /\ pc["r1"] = "handle"

HeartbeatDue(r) == hb[r] \in {"ready", "sleep", "errsleep"}

Unfinished(t) == hist[t].handled - hist[t].published - hist[t].aborted

\* handle_task invocations of the agent process that have begun and are not over
RECURSIVE UnfinishedUpTo(_)
UnfinishedUpTo(n) == IF n = 0 THEN 0 ELSE Unfinished(n) + UnfinishedUpTo(n - 1)

\* C16 (as claimed): the loop issues a BRPOP only when the Result of every
\* task it executed before is in the result list and the result hash.
C16_PopAfterResultPublished ==
    [][\A r \in Runtimes :
        (pc'[r] = "pop" /\ pc[r] # "pop")
            => \A t \in TaskIds :
                hist[t].handled > hist[t].aborted
                    => ResultsFor(t) >= 1 /\ resultStore[t] # NoResult]_vars

\* C16 (amended): one agent process handles its tasks one after the other:
\* at no time has more than one handle_task invocation begun and not ended,
\* the loop holds at most the one task it popped last, and it issues a
\* BRPOP only when every task it executed before has been passed to
\* publish_result and that call is over; the Result is then in the result
\* list and the result hash unless the broker was down during the call or
\* start() was cancelled inside it.
C16_Sequential ==
    /\ [](UnfinishedUpTo(MaxTasks) <= 1)
    /\ [](\A t \in TaskIds : Unfinished(t) = InHandler(t))
    /\ [](\A r \in Runtimes :
            pc[r] \in {"loop", "pop"} => task[r] = NoTask /\ result[r] = NoResult)
    /\ [][\A r \in Runtimes :
            (pc'[r] = "pop" /\ pc[r] # "pop")
                => /\ UnfinishedUpTo(MaxTasks) = 0
                   /\ \A t \in TaskIds :
                        hist[t].handled > hist[t].aborted
                            => /\ hist[t].published = 1
                               /\ hist[t].lost = 0
                                    => /\ ResultsFor(t) = 1
                                       /\ resultStore[t].task_id = t]_vars

\* the loop is at its BRPOP for the next task, which is queued, after it
\* executed a task and published its Result
C16_Witness ==
    /\ pc["r1"] = "pop" /\ taskQueue # <<>>
    /\ \E t \in TaskIds :
        /\ hist[t].handled = 1 /\ hist[t].published = 1 /\ ResultsFor(t) = 1
        /\ resultStore[t] # NoResult

\* the MessageQueue methods that return a bool
BoolOps == {"publish_task", "publish_result", "publish_alert", "publish_message"}

\* none/false from MessageQueue method op
SoftFailure(op) == IF op \in BoolOps THEN BoolReply(op, FALSE) ELSE NoneReply(op)

\* C17 (as claimed): no MessageQueue call lets the exception of a failed
\* Redis command out, and a call made while the connection is down gives
\* its caller False (bool methods) or None (the others).
C17_SoftFailure ==
    /\ [](reply.kind # Raised)
    /\ [][(~brokerUp /\ reply' # reply) => reply' = SoftFailure(reply'.op)]_vars

\* C18 (as claimed): in every state a Result for task id t is in the result
\* list if and only if the result hash holds a Result under t, and
\* publish_result returns True only when both commands were executed.
C18_PublishResultAtomic ==
    /\ \A t \in TaskIds : ResultsFor(t) > 0 <=> resultStore[t] # NoResult
    /\ (reply.op = "publish_result" /\ reply.flag)
            => \E i \in 1..Len(resultQueue) :
                    resultStore[resultQueue[i].task_id] = resultQueue[i]

\* C19 (as claimed): get_result(t) returns the Result of the last
\* publish_result for t that returned True, None when there was none.
C19_GetResultLatest ==
    [][\A t \in TaskIds :
        CallGetResult(t) => reply' = ResultReply("get_result", pushed[t])]_vars

\* C19 (amended): get_result(t), when the connection answers, returns the
\* Result of the last publish_result for t that returned True, whatever
\* calls for t and for other ids came before, and None when no Result was
\* ever pushed for t; when the connection is down it returns None. A
\* publish_result for one id leaves what is stored for every other id alone.
C19_GetResultLatestWhenUp ==
    /\ [][\A t \in TaskIds :
            CallGetResult(t)
                => reply' = ResultReply("get_result",
                                        IF brokerUp THEN pushed[t] ELSE NoResult)]_vars
    /\ [](\A t \in TaskIds :
            /\ resultStore[t] = pushed[t]
            /\ ResultsFor(t) = 0 => pushed[t] = NoResult
            /\ pushed[t] # NoResult => pushed[t].task_id = t)
    /\ [][\A t \in TaskIds :
            resultStore'[t] # resultStore[t]
                => /\ pending.stage = "hset" /\ pending.item.task_id = t
                   /\ resultStore'[t] = pending.item
                   /\ reply' = BoolReply("publish_result", TRUE)]_vars

\* two Results were pushed for one task id, COMPLETED and then FAILED, and
\* get_result has just returned the FAILED one
C19_Witness ==
    \E t \in TaskIds :
        /\ reply = ResultReply("get_result", pushed[t])
        /\ ResultsFor(t) = 2
        /\ pushed[t].status = "failed"
        /\ resultQueue[1] = pushed[t]
        /\ \E u \in TaskIds : u # t /\ pushed[u] = NoResult

\* C20: the task list is first in, first out: BRPOP hands out the task
\* that was pushed first among those in the list, whatever the priorities
\* and whichever runtime polls; task ids are issued in the order of the
\* pushes.
C20_TaskQueueFifo ==
    /\ [](\A i, j \in 1..Len(taskQueue) :
            i < j => taskQueue[i].task_id > taskQueue[j].task_id)
    /\ [](\A t, u \in TaskIds : (t < u /\ hist[u].popped > 0) => ~Queued(t))
    /\ [][\A r \in Runtimes :
            (pc[r] = "pop" /\ pc'[r] # "pop" /\ taskQueue' # taskQueue)
                => /\ hist'[taskQueue[Len(taskQueue)].task_id].popped = 1
                   /\ taskQueue' = SubSeq(taskQueue, 1, Len(taskQueue) - 1)
                   /\ \A i \in 1..Len(taskQueue') :
                        taskQueue'[i].task_id > taskQueue[Len(taskQueue)].task_id
            ]_vars

\* a LOW task pushed first is being handled while the CRITICAL task pushed
\* after it is still in the list
C20_Witness ==
    \E r \in Runtimes :
        /\ pc[r] = "handle" /\ task[r].priority = "low"
        /\ \E i \in 1..Len(taskQueue) :
            /\ taskQueue[i].priority = "critical"
            /\ taskQueue[i].task_id > task[r].task_id
            /\ taskQueue[i].agent_id = task[r].agent_id

\* the alerts published on the channel since consume_alerts subscribed
PublishedSince == SubSeq(alertChannel, subFrom + 1, Len(alertChannel))

\* C21 (as claimed): the alerts passed to the callback are, in order, the
\* alerts published since the subscription began, none twice and none from
\* before; and every alert published after consume_alerts subscribed is
\* eventually passed to the callback, also after the callback raised.
C21_EveryAlertInOrder ==
    /\ [](sub # "none" =>
            /\ Len(delivered) <= Len(PublishedSince)
            /\ delivered = SubSeq(PublishedSince, 1, Len(delivered)))
    /\ \A k \in 1..MaxPushes :
        (sub # "none" /\ Len(PublishedSince) >= k) ~> (Len(delivered) >= k)

\* task id t has not been given to any task yet
Fresh(t) ==
    /\ \A i \in 1..Len(taskQueue) : taskQueue[i].task_id # t
    /\ \A r \in Runtimes : task[r].task_id # t /\ result[r].task_id # t
    /\ \A i \in 1..Len(resultQueue) : resultQueue[i].task_id # t
    /\ hist[t] = NoHistory

\* the Task publish_task(a, ., ., p) builds when the id it draws is t
Published(t, a, p) == [task_id |-> t, agent_id |-> a, priority |-> p, retry_count |-> 0]

\* C22 (as claimed): every publish_task call returns an id no task had
\* before, and when it returns a Task with that id, the target agent and
\* priority given and retry_count 0 has been added to the task list.
C22_FreshIdAndPushed ==
    [][\A a \in AgentType, p \in TaskPriority :
        PublishTask(a, p)
            => /\ Fresh(nextId)
               /\ taskQueue' = <<Published(nextId, a, p)>> \o taskQueue]_vars

\* C22 (amended): every publish_task call returns an id no task had before;
\* when the broker executes the push, a Task with that id, the target agent
\* and priority given and retry_count 0 has been added to the task list,
\* and when the connection is down the id is returned all the same and the
\* task list is left as it was.
C22_FreshIdPushedWhenUp ==
    [][\A a \in AgentType, p \in TaskPriority :
        PublishTask(a, p)
            => /\ Fresh(nextId)
               /\ brokerUp => taskQueue' = <<Published(nextId, a, p)>> \o taskQueue
               /\ ~brokerUp => taskQueue' = taskQueue]_vars

\* two publish_task calls went through: a CRITICAL task for model_monitor
\* after a LOW task for data_quality
C22_Witness ==
    /\ nextId = 3
    /\ taskQueue = <<Published(2, "model_monitor", "critical"),
                     Published(1, "data_quality", "low")>>

RECURSIVE HistUpTo(_, _)
\* how often something was done, over the task ids up to n
HistUpTo(field, n) == IF n = 0 THEN 0 ELSE hist[n][field] + HistUpTo(field, n - 1)

\* how often something was done, over all task ids
HistTotal(field) == HistUpTo(field, MaxTasks)

\* Results with status st in the result list
ResultsWithStatus(st) == Count(resultQueue, LAMBDA x : x.status = st)

\* the quotient q is f / n
IsQuotient(q, f, n) == q[2] > 0 /\ q[1] * n = f * q[2]

\* C23 (as claimed): between two tasks, when every Result built reached the
\* result list, tasks_completed is the number of COMPLETED Results,
\* tasks_failed the number of FAILED Results, and get_error_rate is
\* failed / (completed + failed), 0 when there was no task; a poll changes
\* neither counter.
C23_CountersMatchResults ==
    /\ [](LET r == "r1"
              c == ResultsWithStatus("completed")
              f == ResultsWithStatus("failed")
          IN (task[r] = NoTask /\ HistTotal("lost") = 0)
                => /\ tasks_completed[r] = c
                   /\ tasks_failed[r] = f
                   /\ IF c + f = 0 THEN get_error_rate(r)[1] = 0
                      ELSE IsQuotient(get_error_rate(r), f, c + f))
    /\ [][\A r \in Runtimes :
            pc[r] = "pop" => UNCHANGED <<tasks_completed, tasks_failed>>]_vars

\* C23 (amended): tasks_failed is the number of tasks whose handler raised;
\* tasks_completed is the number of tasks whose handler returned a Result,
\* whatever its status, and whose publish_result call has ended (a start()
\* cancelled inside that call leaves the task uncounted); get_error_rate is
\* tasks_failed / (tasks_completed + tasks_failed), 0 when both are 0; a
\* poll, with a task discarded or none found, changes neither counter.
C23_CountersMatchHandler ==
    /\ [](LET r == "r1"
              c == tasks_completed[r]
              f == tasks_failed[r]
              publishing == IF pc[r] = "hset_ok" THEN 1 ELSE 0
          IN /\ f = HistTotal("raised")
             /\ pc[r] # "cancelled" => c + publishing = HistTotal("returned")
             /\ pc[r] = "cancelled" =>
                    /\ c <= HistTotal("returned")
                    /\ HistTotal("returned") <= c + 1
             /\ IF c + f = 0 THEN get_error_rate(r) = <<0, 1>>
                ELSE IsQuotient(get_error_rate(r), f, c + f))
    /\ [][\A r \in Runtimes :
            pc[r] = "pop" => UNCHANGED <<tasks_completed, tasks_failed>>]_vars

\* one task's handler returned a FAILED Result, another's raised: both
\* Results are FAILED, the error rate is 1/2
C23_Witness ==
    /\ pc["r1"] = "pop"
    /\ tasks_completed["r1"] = 1 /\ tasks_failed["r1"] = 1
    /\ ResultsWithStatus("failed") = 2
    /\ get_error_rate("r1") = <<1, 2>>

\* stop() of runtime r calls cleanup() in this step
CleanupInvoked(r) == spc[r] = "await_hb" /\ spc'[r] = "stopped"

\* runtime r calls handle_task in this step
HandlerInvoked(r) == pc[r] # "handle" /\ pc'[r] = "handle"

\* C24 (as claimed): cleanup() is invoked only while no handle_task of the
\* instance is in progress, and no handle_task begins once the stop() that
\* was called has invoked cleanup().
C24_CleanupExcludesHandler ==
    /\ [][\A r \in Runtimes : CleanupInvoked(r) => pc[r] # "handle"]_vars
    /\ [][\A r \in Runtimes : HandlerInvoked(r) => spc[r] # "stopped"]_vars

\* C25 (as claimed): a task a runtime of its kind has popped and handed to
\* handle_task ends with a Result in the result list, also when stop() is
\* called or start() is cancelled during its execution (leaving aside a
\* Result the broker did not take).
C25_PoppedTaskGetsResult ==
    \A t \in TaskIds :
        (hist[t].handled >= 1 /\ ~Executing(t) /\ hist[t].lost = 0)
            => ResultsFor(t) >= 1

\* the heartbeat loop of runtime r attempts a write in this step and the
\* connection is down
HeartbeatWriteFails(r) == HeartbeatTick(r) /\ is_running[r] /\ ~brokerUp

\* C26: a heartbeat write that fails leaves the heartbeat loop alive, in
\* the sleep of its except branch; from that sleep, with the connection
\* back and the instance still running, the loop writes a heartbeat unless
\* the instance is stopped or the connection drops again first.
C26_HeartbeatSurvivesBrokerError ==
    /\ [][\A r \in Runtimes : HeartbeatWriteFails(r) => hb'[r] = "errsleep"]_vars
    /\ \A n \in 0..(MaxBeats - 1) :
        LET r == "r1" IN
        (hb[r] = "errsleep" /\ brokerUp /\ is_running[r]
                /\ heartbeats[agent_id[r]] = n)
            ~> (heartbeats[agent_id[r]] > n \/ ~is_running[r] \/ ~brokerUp)

\* the first heartbeat write failed, the connection is back and the loop
\* is in the sleep of its except branch
C26_Witness ==
    /\ hb["r1"] = "errsleep" /\ brokerUp /\ is_running["r1"]
    /\ heartbeats[agent_id["r1"]] = 0
    /\ ENABLED HeartbeatTick("r1")

\* C27: the runtime never retries or re-queues a task: a task whose handler
\* raised is not in the task list again and is handed to handle_task once;
\* the task list grows only by a publish_task with a fresh id; every task
\* keeps retry_count 0; and a handle_task invocation ends only because the
\* handler returned or raised or start() was cancelled, never because the
\* runtime timed it out.
C27_NoRetryNoTimeout ==
    /\ [](\A t \in TaskIds :
            /\ hist[t].handled <= 1
            /\ hist[t].raised >= 1 => ~Queued(t))
    /\ [](/\ \A i \in 1..Len(taskQueue) : taskQueue[i].retry_count = 0
          /\ \A r \in Runtimes : task[r].retry_count = 0)
    /\ [][taskQueue' # taskQueue /\ Len(taskQueue') >= Len(taskQueue)
            => /\ nextId' = nextId + 1
               /\ taskQueue' = <<taskQueue'[1]>> \o taskQueue
               /\ taskQueue'[1].task_id = nextId]_vars
    /\ [][\A r \in Runtimes :
            (pc[r] = "handle" /\ pc'[r] # "handle")
                => LET id == task[r].task_id IN
                   \/ hist'[id].returned = hist[id].returned + 1
                   \/ hist'[id].raised = hist[id].raised + 1
                   \/ pc'[r] = "cancelled"]_vars

\* the handler raised for a task, its execution is over, the task is in
\* no list and the runtime polls again
C27_Witness ==
    \E t \in TaskIds :
        /\ hist[t].raised = 1 /\ hist[t].handled = 1
        /\ ~Executing(t) /\ ~Queued(t)
        /\ pc["r1"] = "pop"
        /\ ResultsFor(t) = 1

\* C28: stop() calls cleanup() only once the heartbeat task it cancelled
\* has ended, whether the task was at its start, in the sleep after a
\* write or in the sleep after a failed write; from then on, until the
\* instance is started again, no heartbeat task of the instance is alive.
C28_CleanupAfterHeartbeatEnds ==
    /\ [][\A r \in Runtimes :
            CleanupInvoked(r) => hb[r] \in {"none", "done"} /\ hb'[r] = hb[r]]_vars
    /\ [][\A r \in Runtimes :
            (spc[r] = "stopped" /\ spc'[r] = "stopped")
                => hb'[r] = hb[r] /\ hb[r] \in {"none", "done"}]_vars

\* stop() has run cleanup() on an instance whose heartbeat task never got
\* a write through (cancelled at its start or in the sleep after a failed
\* write), while the main loop is still polling
C28_Witness ==
    /\ spc["r1"] = "stopped" /\ hb["r1"] = "done"
    /\ heartbeats[agent_id["r1"]] = 0
    /\ pc["r1"] = "pop"

\* how often alert a is in list (or channel history) q
AlertCopies(q, a) == Count(q, LAMBDA x : x = a)

\* C29 (as claimed): once a publish_alert call is over, every alert is on
\* the alert list as often as it was published on channel "alerts", also
\* when the connection dropped between the LPUSH and the PUBLISH; and
\* publish_alert returns True only when both commands were executed.
C29_AlertQueueMatchesChannel ==
    /\ pending.stage = "idle"
        => \A a \in ClientAlerts :
                AlertCopies(alertQueue, a) = AlertCopies(alertChannel, a)
    /\ (reply.op = "publish_alert" /\ reply.flag)
        => /\ Len(alertQueue) > 0
           /\ alertChannel[Len(alertChannel)] = alertQueue[1]

\* C30 (as claimed): a runtime polls and calls handle_task only after the
\* initialize() of its start() has returned, and stop() calls cleanup()
\* only on an instance that was started and whose initialize() did not
\* raise.
C30_LifecycleOrdered ==
    /\ [][\A r \in Runtimes :
            (pc'[r] \in {"pop", "handle"} /\ pc'[r] # pc[r])
                => pc[r] \in {"loop", "pop"}]_vars
    /\ [](\A r \in Runtimes : pc[r] \in {"created", "init", "raised"} => task[r] = NoTask)
    /\ [][\A r \in Runtimes :
            CleanupInvoked(r) => pc[r] \notin {"created", "raised"}]_vars

\* C6 (as claimed): while the broker stays available and a runtime bound to
\* agent kind a keeps polling, every task queued for a is eventually handed
\* to handle_task.
C6_AtLeastOnce ==
    \A t \in TaskIds, r \in Runtimes :
        ([]brokerUp /\ []<>(pc[r] = "pop"))
            => [](QueuedFor(t, agent_id[r]) => <>(hist[t].handled > 0))

====
